---- MODULE Spec2Model ----
(***************************************************************************)
(* The request pipeline built by createApp (src/utils/logger.ts, lines     *)
(* 25-99, the app.ts part of the file), the environment configuration      *)
(* (src/config/index.ts) and the winston logger (src/utils/logger.ts,      *)
(* lines 4-23).                                                            *)
(*                                                                         *)
(* express keeps the middleware in a stack, in the order of the app.use /  *)
(* app.get calls, and walks it for every request: next() moves to the next *)
(* layer whose path and method match, next(err) to the next error-handling *)
(* layer.  A request runs synchronously until a middleware waits: the rate *)
(* limiter awaits its store, the body parser awaits the request body.      *)
(* Those two are the points where requests interleave.                     *)
(***************************************************************************)
EXTENDS Integers, Sequences, FiniteSets, TLC

VARIABLES
    hits,       \* the limiter's MemoryStore: client key -> totalHits of its window
    resetIn,    \* the limiter's MemoryStore: client key -> ms until resetTime (0: no entry)
    reqs,       \* the requests on open connections, in the order they arrived
    served,     \* requests accepted so far
    arrivals,   \* history: client key -> requests that ran the limiter in its current window
    passed,     \* history: client key -> requests the limiter let through in that window
    winLeft,    \* history: client key -> ms left of the 15 minutes since its first request
    prevWindow, \* history: client key -> whether its last expired window went over max
    env,        \* process.env: NODE_ENV and PORT
    config,     \* the config module: not loaded, loaded, or the parse threw
    emitted,    \* history: the level of every logger call, in order
    console,    \* Console transport: the records written (indices into emitted)
    errorLog,   \* File transport error.log
    combinedLog \* File transport combined.log

vars == <<hits, resetIn, reqs, served, arrivals, passed, winLeft, prevWindow,
          env, config, emitted, console, errorLog, combinedLog>>
httpVars == <<hits, resetIn, reqs, served, arrivals, passed, winLeft, prevWindow>>
bootVars == <<env, config, emitted, console, errorLog, combinedLog>>

(***************************************************************************)
(* Bounds of the model.                                                    *)
(***************************************************************************)
MaxRequests == 3
MaxInFlight == 2
MaxLogs == 2

Min(a, b) == IF a < b THEN a ELSE b
Max(a, b) == IF a < b THEN b ELSE a

(***************************************************************************)
(* Requests.  A path is the sequence of its segments: "/" is << >>,        *)
(* "/api/health" is <<"api", "health">>.                                   *)
(***************************************************************************)
Clients == {"10.0.0.1", "10.0.0.2"}
Methods == {"GET", "POST", "OPTIONS"}
Root == << >>
HealthPath == <<"health">>
ApiDocsPath == <<"api-docs">>
ApiDocsJsonPath == <<"api-docs.json">>
ApiPath == <<"api">>
ApiHealthPath == <<"api", "health">>
UndefinedPath == <<"undefined-route">>
NestedPath == <<"health", "check">>
Paths == {Root, HealthPath, ApiDocsPath, ApiDocsJsonPath, ApiHealthPath, UndefinedPath,
          NestedPath}
\* the request body: none, well-formed JSON, malformed JSON (Content-Type application/json)
Bodies == {"none", "json", "malformed"}
\* what the handler of GET /api/health does with the request
Outcomes == {"ok", "appError", "internalError"}

IsPrefix(p, q) == Len(p) <= Len(q) /\ SubSeq(q, 1, Len(p)) = p

NoRes == [status |-> 0, body |-> [none |-> "none"], by |-> "none"]

BlankReq ==
    [state |-> "running", client |-> "", method |-> "", path |-> << >>, body |-> "",
     outcome |-> "", idx |-> 0, pending |-> 0, trace |-> << >>, err |-> "none",
     raised |-> 0, res |-> NoRes, limited |-> FALSE, hitNo |-> 0, seq |-> 0,
     ehCalls |-> 0, logSeen |-> FALSE, logged |-> FALSE, parsed |-> FALSE,
     logs |-> << >>]

NewReq(c, m, p, b, o) ==
    [BlankReq EXCEPT !.client = c, !.method = m, !.path = p, !.body = b, !.outcome = o]

(***************************************************************************)
(* The rate limiter's options.                                             *)
(***************************************************************************)
windowMs == 15 * 60 * 1000
max == 100

(***************************************************************************)
(* The stack, in the order createApp registers it.  kind "use" matches a   *)
(* path prefix, kind "get" the exact path and the GET method; an error     *)
(* layer is a middleware of four arguments.                                *)
(***************************************************************************)
Layer(n, k, p, e) == [name |-> n, kind |-> k, path |-> p, errLayer |-> e]

\* the catch-all 404 responder registered ahead of the /health and / endpoints
createAppCatchAllFirst ==
    << Layer("helmet", "use", Root, FALSE),
       Layer("cors", "use", Root, FALSE),
       Layer("hpp", "use", Root, FALSE),
       Layer("limiter", "use", Root, FALSE),
       Layer("json", "use", Root, FALSE),
       Layer("urlencoded", "use", Root, FALSE),
       Layer("compression", "use", Root, FALSE),
       Layer("morgan", "use", Root, FALSE),
       Layer("swaggerUi", "use", ApiDocsPath, FALSE),
       Layer("apiDocsJson", "get", ApiDocsJsonPath, FALSE),
       Layer("routes", "use", ApiPath, FALSE),
       Layer("notFound", "use", Root, FALSE),
       Layer("health", "get", HealthPath, FALSE),
       Layer("index", "get", Root, FALSE),
       Layer("errorHandler", "use", Root, TRUE) >>

\* the catch-all registered with app.get('/') in place of app.use('*')
createAppGetOnly404 ==
    << Layer("helmet", "use", Root, FALSE),
       Layer("cors", "use", Root, FALSE),
       Layer("hpp", "use", Root, FALSE),
       Layer("limiter", "use", Root, FALSE),
       Layer("json", "use", Root, FALSE),
       Layer("urlencoded", "use", Root, FALSE),
       Layer("compression", "use", Root, FALSE),
       Layer("morgan", "use", Root, FALSE),
       Layer("swaggerUi", "use", ApiDocsPath, FALSE),
       Layer("apiDocsJson", "get", ApiDocsJsonPath, FALSE),
       Layer("routes", "use", ApiPath, FALSE),
       Layer("health", "get", HealthPath, FALSE),
       Layer("index", "get", Root, FALSE),
       Layer("notFound", "get", Root, FALSE),
       Layer("errorHandler", "use", Root, TRUE) >>

\* the body parsers registered ahead of the rate limiter
createAppBodyFirst ==
    << Layer("helmet", "use", Root, FALSE),
       Layer("cors", "use", Root, FALSE),
       Layer("hpp", "use", Root, FALSE),
       Layer("json", "use", Root, FALSE),
       Layer("urlencoded", "use", Root, FALSE),
       Layer("limiter", "use", Root, FALSE),
       Layer("compression", "use", Root, FALSE),
       Layer("morgan", "use", Root, FALSE),
       Layer("swaggerUi", "use", ApiDocsPath, FALSE),
       Layer("apiDocsJson", "get", ApiDocsJsonPath, FALSE),
       Layer("routes", "use", ApiPath, FALSE),
       Layer("health", "get", HealthPath, FALSE),
       Layer("index", "get", Root, FALSE),
       Layer("notFound", "use", Root, FALSE),
       Layer("errorHandler", "use", Root, TRUE) >>

\* the error handler registered ahead of the stages whose errors it is to catch
createAppErrorHandlerFirst ==
    << Layer("errorHandler", "use", Root, TRUE),
       Layer("helmet", "use", Root, FALSE),
       Layer("cors", "use", Root, FALSE),
       Layer("hpp", "use", Root, FALSE),
       Layer("limiter", "use", Root, FALSE),
       Layer("json", "use", Root, FALSE),
       Layer("urlencoded", "use", Root, FALSE),
       Layer("compression", "use", Root, FALSE),
       Layer("morgan", "use", Root, FALSE),
       Layer("swaggerUi", "use", ApiDocsPath, FALSE),
       Layer("apiDocsJson", "get", ApiDocsJsonPath, FALSE),
       Layer("routes", "use", ApiPath, FALSE),
       Layer("health", "get", HealthPath, FALSE),
       Layer("index", "get", Root, FALSE),
       Layer("notFound", "use", Root, FALSE) >>

\* the access logger registered ahead of the rate limiter
createAppMorganFirst ==
    << Layer("helmet", "use", Root, FALSE),
       Layer("cors", "use", Root, FALSE),
       Layer("hpp", "use", Root, FALSE),
       Layer("morgan", "use", Root, FALSE),
       Layer("limiter", "use", Root, FALSE),
       Layer("json", "use", Root, FALSE),
       Layer("urlencoded", "use", Root, FALSE),
       Layer("compression", "use", Root, FALSE),
       Layer("swaggerUi", "use", ApiDocsPath, FALSE),
       Layer("apiDocsJson", "get", ApiDocsJsonPath, FALSE),
       Layer("routes", "use", ApiPath, FALSE),
       Layer("health", "get", HealthPath, FALSE),
       Layer("index", "get", Root, FALSE),
       Layer("notFound", "use", Root, FALSE),
       Layer("errorHandler", "use", Root, TRUE) >>

createApp ==
    << Layer("helmet", "use", Root, FALSE),
       Layer("cors", "use", Root, FALSE),
       Layer("hpp", "use", Root, FALSE),
       Layer("limiter", "use", Root, FALSE),
       Layer("json", "use", Root, FALSE),
       Layer("urlencoded", "use", Root, FALSE),
       Layer("compression", "use", Root, FALSE),
       Layer("morgan", "use", Root, FALSE),
       Layer("swaggerUi", "use", ApiDocsPath, FALSE),
       Layer("apiDocsJson", "get", ApiDocsJsonPath, FALSE),
       Layer("routes", "use", ApiPath, FALSE),
       Layer("health", "get", HealthPath, FALSE),
       Layer("index", "get", Root, FALSE),
       Layer("notFound", "use", Root, FALSE),
       Layer("errorHandler", "use", Root, TRUE) >>

\* express's Layer.match and Route._handles_method, and the error-mode skip of
\* Router.handle: with an error pending only error layers run, without one only
\* the others.
Matches(l, r) ==
    /\ l.errLayer = (r.err # "none")
    /\ \/ l.kind = "use" /\ IsPrefix(l.path, r.path)
       \/ l.kind = "get" /\ r.method = "GET" /\ r.path = l.path

\* the next matching layer after r.idx, 0 when the stack is exhausted
NextLayer(r) ==
    LET later == {i \in 1..Len(createApp) : i > r.idx /\ Matches(createApp[i], r)}
    IN  IF later = {} THEN 0 ELSE CHOOSE i \in later : \A j \in later : i <= j


(***************************************************************************)
(* What a middleware returns: the request as it leaves it, the limiter's   *)
(* store, and whether it called next() ("next", with r.err set for         *)
(* next(err) or a throw) or ended the response ("end").                    *)
(***************************************************************************)
Out(r, st, ctl) == [r |-> r, st |-> st, ctl |-> ctl]
Pass(r, st) == Out(r, st, "next")
Raise(r, st, e) == Out([r EXCEPT !.err = e, !.raised = @ + 1], st, "next")

\* res.status(..).json(..) / res.send(..) / res.end(): the response is written and
\* finishes; morgan, when the request went through it, writes its access-log line
\* on the finish, with logger.info (r.logs: the logger calls of the request).
Send(r, st, status, body, by) ==
    Out([r EXCEPT !.res = [status |-> status, body |-> body, by |-> by],
                  !.state = "done", !.logged = r.logSeen,
                  !.logs = IF r.logSeen THEN Append(@, "info") ELSE @],
        st, "end")

HealthBody == [status |-> "ok"]
WelcomeBody == [message |-> "Welcome to the API"]
ErrorBody(m) == [status |-> "error", message |-> m]
TextBody(t) == [text |-> t]

helmet(r, st) == Pass(r, st)

\* cors() with its defaults: an OPTIONS request is a preflight and is answered
\* here with 204 (preflightContinue is false); any other request goes on.
cors(r, st) ==
    IF r.method = "OPTIONS"
    THEN Send(r, st, 204, TextBody(""), "cors")
    ELSE Pass(r, st)

hpp(r, st) == Pass(r, st)

\* every request counted twice
incrementTwice(st, key) ==
    IF st.resetIn[key] = 0
    THEN [hits |-> [st.hits EXCEPT ![key] = 2],
          resetIn |-> [st.resetIn EXCEPT ![key] = windowMs]]
    ELSE [st EXCEPT !.hits[key] = @ + 2]

\* MemoryStore.increment: a key without a live entry starts a window of windowMs
\* with one hit, a key with one gets one more hit.
increment(st, key) ==
    IF st.resetIn[key] = 0
    THEN [hits |-> [st.hits EXCEPT ![key] = 1],
          resetIn |-> [st.resetIn EXCEPT ![key] = windowMs]]
    ELSE [st EXCEPT !.hits[key] = @ + 1]

\* the limit reached at max, not past it
limiterOffByOne(r, st) ==
    LET key == r.client
        st2 == increment(st, key)
        totalHits == st2.hits[key]
        r2 == [r EXCEPT !.hitNo = totalHits]
    IN  IF totalHits >= max
        THEN Send([r2 EXCEPT !.limited = TRUE], st2, 429,
                  TextBody("Too many requests, please try again later."), "limiter")
        ELSE Pass(r2, st2)

\* one key for every client
limiterSharedKey(r, st) ==
    LET key == "10.0.0.1"
        st2 == increment(st, key)
        totalHits == st2.hits[key]
        r2 == [r EXCEPT !.hitNo = totalHits]
    IN  IF totalHits > max
        THEN Send([r2 EXCEPT !.limited = TRUE], st2, 429,
                  TextBody("Too many requests, please try again later."), "limiter")
        ELSE Pass(r2, st2)

\* rateLimit({windowMs, max}): the key is the client address; the request is
\* counted, and once the count is over max the limiter answers 429 itself.
limiter(r, st) ==
    LET key == r.client
        st2 == increment(st, key)
        totalHits == st2.hits[key]
        r2 == [r EXCEPT !.hitNo = totalHits]
    IN  IF totalHits > max
        THEN Send([r2 EXCEPT !.limited = TRUE], st2, 429,
                  TextBody("Too many requests, please try again later."), "limiter")
        ELSE Pass(r2, st2)

\* express.json(): a malformed body is passed on as an error (400,
\* entity.parse.failed); a request without a body goes straight on.
json(r, st) ==
    IF r.body = "malformed"
    THEN Raise(r, st, "parse")
    ELSE Pass([r EXCEPT !.parsed = (r.body = "json")], st)

urlencoded(r, st) == Pass(r, st)

compression(r, st) == Pass(r, st)

\* morgan('combined', {stream}): registers the on-finished hook that writes the line
morgan(r, st) == Pass([r EXCEPT !.logSeen = TRUE], st)

swaggerUi(r, st) == Send(r, st, 200, [html |-> "swagger-ui"], "swaggerUi")

apiDocsJson(r, st) == Send(r, st, 200, [openapi |-> "3.0.0"], "apiDocsJson")

\* routes/health.routes.ts: the handler of GET /api/health answers, or raises an
\* Application Error (CustomError('Resource not found', 404)), or fails otherwise.
healthRouter(r, st) ==
    CASE r.outcome = "appError" -> Raise(r, st, "appError")
      [] r.outcome = "internalError" -> Raise(r, st, "internal")
      [] OTHER -> Send(r, st, 200, HealthBody, "healthRouter")

\* routes/index.ts: the router mounted under /api
routes(r, st) ==
    IF r.method = "GET" /\ r.path = ApiHealthPath
    THEN healthRouter(r, st)
    ELSE Pass(r, st)

health(r, st) == Send(r, st, 200, HealthBody, "health")

index(r, st) == Send(r, st, 200, WelcomeBody, "index")

notFound(r, st) == Send(r, st, 404, ErrorBody("Route not found"), "notFound")

\* middleware/error.middleware.ts: an Application Error is answered with its own
\* status and message, anything else with 500 and a generic message.
errorHandler(r, st) ==
    LET r2 == [r EXCEPT !.ehCalls = @ + 1]
    IN  IF r.err = "appError"
        THEN Send(r2, st, 404, ErrorBody("Resource not found"), "errorHandler")
        ELSE Send([r2 EXCEPT !.logs = Append(@, "error")], st, 500,
                  ErrorBody("Internal server error"), "errorHandler")

\* express's finalhandler, for a request no layer of the stack answered
finalhandler(r, st) ==
    CASE r.err = "none" -> Send(r, st, 404, TextBody("Cannot " \o r.method), "finalhandler")
      [] r.err = "parse" -> Send(r, st, 400, TextBody("Bad Request"), "finalhandler")
      [] OTHER -> Send(r, st, 500, TextBody("Internal Server Error"), "finalhandler")

Invoke(name, r, st) ==
    CASE name = "helmet" -> helmet(r, st)
      [] name = "cors" -> cors(r, st)
      [] name = "hpp" -> hpp(r, st)
      [] name = "limiter" -> limiter(r, st)
      [] name = "json" -> json(r, st)
      [] name = "urlencoded" -> urlencoded(r, st)
      [] name = "compression" -> compression(r, st)
      [] name = "morgan" -> morgan(r, st)
      [] name = "swaggerUi" -> swaggerUi(r, st)
      [] name = "apiDocsJson" -> apiDocsJson(r, st)
      [] name = "routes" -> routes(r, st)
      [] name = "health" -> health(r, st)
      [] name = "index" -> index(r, st)
      [] name = "notFound" -> notFound(r, st)
      [] name = "errorHandler" -> errorHandler(r, st)

\* the layers that wait before they act: the limiter for its store, the body
\* parser for the body of a request that has one
Waits(name, r) ==
    \/ name = "limiter"
    \/ name = "json" /\ r.body # "none"

\* the request enters layer i: it is recorded in the request's trace and run
Enter(i, r, st) ==
    Invoke(createApp[i].name,
           [r EXCEPT !.idx = i, !.pending = 0, !.state = "running",
                     !.trace = Append(@, createApp[i].name)],
           st)

\* Router.handle's next(): run the layers from r.idx on, until one ends the
\* response or waits
RECURSIVE Dispatch(_, _)
Dispatch(r, st) ==
    LET i == NextLayer(r)
    IN  IF i = 0 THEN finalhandler(r, st)
        ELSE IF Waits(createApp[i].name, r)
        THEN Out([r EXCEPT !.state = "waiting", !.pending = i], st, "wait")
        ELSE LET o == Enter(i, r, st)
             IN  IF o.ctl = "end" THEN o ELSE Dispatch(o.r, o.st)

\* the layer the request waited in runs, and the dispatch goes on from it
Continue(r, st) ==
    LET o == Enter(r.pending, r, st)
    IN  IF o.ctl = "end" THEN o ELSE Dispatch(o.r, o.st)


(***************************************************************************)
(* Configuration: envSchema.parse(process.env) and the config object.      *)
(* An environment variable is set or not; PORT's value is the sequence of  *)
(* its characters.                                                         *)
(***************************************************************************)
Unset == [set |-> FALSE, val |-> << >>]
Str(s) == [set |-> TRUE, val |-> s]

NodeEnvs == {"development", "production", "test"}
NodeEnvInputs == {Unset} \cup {Str(<<e>>) : e \in NodeEnvs \cup {"staging", ""}}
PortInputs ==
    {Unset, Str(<<"3", "0", "0", "0">>), Str(<<"8", "0">>), Str(<<"a", "b", "c">>),
     Str(<< >>), Str(<<"8", "0", "a">>), Str(<<"-", "1">>),
     Str(<<"7", "0", "0", "0", "0">>), Str(<<" ", "8", "0">>)}

Digits == <<"0", "1", "2", "3", "4", "5", "6", "7", "8", "9">>
IsDigit(ch) == \E i \in 1..10 : Digits[i] = ch
DigitVal(ch) == (CHOOSE i \in 1..10 : Digits[i] = ch) - 1

NaN == [nan |-> TRUE, val |-> 0]
Num(n) == [nan |-> FALSE, val |-> n]

\* the longest prefix of s made of digits
RECURSIVE DigitPrefix(_)
DigitPrefix(s) ==
    IF s = << >> \/ ~IsDigit(Head(s)) THEN << >>
    ELSE <<Head(s)>> \o DigitPrefix(Tail(s))

RECURSIVE DecimalValue(_, _)
DecimalValue(s, acc) ==
    IF s = << >> THEN acc ELSE DecimalValue(Tail(s), acc * 10 + DigitVal(Head(s)))

RECURSIVE TrimStart(_)
TrimStart(s) == IF s # << >> /\ Head(s) = " " THEN TrimStart(Tail(s)) ELSE s

\* parseInt(s, 10): leading white space and a sign are skipped, the digits that
\* follow are read up to the first other character; with no digit it is NaN
parseInt(s) ==
    LET t == TrimStart(s)
        neg == t # << >> /\ Head(t) = "-"
        u == IF t # << >> /\ Head(t) \in {"-", "+"} THEN Tail(t) ELSE t
        d == DigitPrefix(u)
    IN  IF d = << >> THEN NaN
        ELSE Num(IF neg THEN 0 - DecimalValue(d, 0) ELSE DecimalValue(d, 0))

\* envSchema: NODE_ENV is z.enum([...]).default('development'), PORT is
\* z.string().default('3000'); parse throws when a field does not validate
NodeEnvOk(e) == ~e.NODE_ENV.set \/ (Len(e.NODE_ENV.val) = 1 /\ e.NODE_ENV.val[1] \in NodeEnvs)
PortOk(e) == TRUE
envSchemaOk(e) == NodeEnvOk(e) /\ PortOk(e)

envVars(e) ==
    [NODE_ENV |-> IF e.NODE_ENV.set THEN e.NODE_ENV.val[1] ELSE "development",
     PORT |-> IF e.PORT.set THEN e.PORT.val ELSE <<"3", "0", "0", "0">>]

NotLoaded ==
    [state |-> "unloaded", env |-> "", port |-> NaN, isProduction |-> FALSE,
     isDevelopment |-> FALSE, isTest |-> FALSE]

loadConfig(e) ==
    IF ~envSchemaOk(e) THEN [NotLoaded EXCEPT !.state = "threw"]
    ELSE LET v == envVars(e)
         IN  [state |-> "loaded", env |-> v.NODE_ENV, port |-> parseInt(v.PORT),
              isProduction |-> v.NODE_ENV = "production",
              isDevelopment |-> v.NODE_ENV = "development",
              isTest |-> v.NODE_ENV = "test"]

(***************************************************************************)
(* The winston logger: npm levels, the logger's level and format from the  *)
(* configuration, three transports of which error.log has a level of its   *)
(* own.                                                                    *)
(***************************************************************************)
Levels == <<"error", "warn", "info", "http", "verbose", "debug", "silly">>
LevelNames == {Levels[i] : i \in 1..Len(Levels)}
Priority(l) == (CHOOSE i \in 1..Len(Levels) : Levels[i] = l) - 1

\* the production level in every mode
loggerLevelAlwaysInfo(cfg) == "info"

loggerLevel(cfg) == IF cfg.isProduction THEN "info" ELSE "debug"
loggerFormat(cfg) == IF cfg.isProduction THEN "production" ELSE "development"

\* a transport's level, "" when it has none of its own
consoleLevel == ""
errorLogLevel == "error"
combinedLogLevel == ""

\* Logger: a record above the logger's level is dropped
Accepts(cfg, l) == Priority(loggerLevel(cfg)) >= Priority(l)
\* TransportStream: the transport's own level, or else its logger's, decides
Writes(cfg, tlevel, l) ==
    Priority(IF tlevel = "" THEN loggerLevel(cfg) ELSE tlevel) >= Priority(l)

Sinks == [emitted |-> emitted, console |-> console, errorLog |-> errorLog,
          combinedLog |-> combinedLog]

\* logger.log: the sinks after a call at level l
log(sk, cfg, l) ==
    LET n == Len(sk.emitted) + 1
        rec == [n |-> n, level |-> l, format |-> loggerFormat(cfg)]
        to(sink, tlevel) ==
            IF Accepts(cfg, l) /\ Writes(cfg, tlevel, l) THEN Append(sink, rec) ELSE sink
    IN  [emitted |-> Append(sk.emitted, l),
         console |-> to(sk.console, consoleLevel),
         errorLog |-> to(sk.errorLog, errorLogLevel),
         combinedLog |-> to(sk.combinedLog, combinedLogLevel)]

SetSinks(sk) ==
    /\ emitted' = sk.emitted
    /\ console' = sk.console
    /\ errorLog' = sk.errorLog
    /\ combinedLog' = sk.combinedLog


(***************************************************************************)
(* The server at work.                                                     *)
(***************************************************************************)
Store == [hits |-> hits, resetIn |-> resetIn]

AllInputs ==
    {<<c, m, p, b, o>> \in Clients \X Methods \X Paths \X Bodies \X Outcomes :
        o = "ok" \/ (p = ApiHealthPath /\ m = "GET")}

\* the requests of the concurrent specification
ConcInputs ==
    Clients \X {"GET"} \X {HealthPath} \X {"none", "json"} \X {"ok"}

\* the result of a dispatch is installed: the request (with the logger calls made for
\* it, r.logs) and the store
Install(rs, o) ==
    /\ reqs' = rs
    /\ hits' = o.st.hits
    /\ resetIn' = o.st.resetIn

\* a request arrives on a new connection and runs up to its first wait
Accept(in) ==
    /\ config.state = "loaded"
    /\ served < MaxRequests
    /\ Len(reqs) < MaxInFlight
    /\ served' = served + 1
    /\ LET o == Dispatch(NewReq(in[1], in[2], in[3], in[4], in[5]), Store)
       IN  Install(Append(reqs, o.r), o)
    /\ UNCHANGED <<arrivals, passed, winLeft, prevWindow>>
    /\ UNCHANGED bootVars

\* one request at a time
Arrive ==
    \E in \in AllInputs :
        /\ reqs = << >>
        /\ Accept(in)

\* a request arrives while others are in flight
ArriveConcurrent ==
    \E in \in ConcInputs : Accept(in)

\* the store answers the limiter, or the body has arrived: the request goes on
Resume(i) ==
    /\ reqs[i].state = "waiting"
    /\ LET r == reqs[i]
           c == r.client
           atLimiter == createApp[r.pending].name = "limiter"
           o == Continue(r, Store)
           n == arrivals[c] + 1
       IN  /\ Install([reqs EXCEPT ![i] = IF atLimiter THEN [o.r EXCEPT !.seq = n] ELSE o.r], o)
           /\ arrivals' = IF atLimiter THEN [arrivals EXCEPT ![c] = n] ELSE arrivals
           /\ passed' = IF atLimiter /\ ~o.r.limited
                        THEN [passed EXCEPT ![c] = @ + 1] ELSE passed
           /\ winLeft' = IF atLimiter /\ winLeft[c] = 0
                         THEN [winLeft EXCEPT ![c] = windowMs] ELSE winLeft
    /\ UNCHANGED <<served, prevWindow>>
    /\ UNCHANGED bootVars

\* the response has been delivered and the connection is closed
Close(i) ==
    /\ reqs[i].state = "done"
    /\ reqs' = SubSeq(reqs, 1, i - 1) \o SubSeq(reqs, i + 1, Len(reqs))
    /\ UNCHANGED <<hits, resetIn, served, arrivals, passed, winLeft, prevWindow>>
    /\ UNCHANGED bootVars

Delays == {windowMs \div 2}

\* time passes; the store drops the entry of a key whose resetTime has come
Tick(d) ==
    /\ \E c \in Clients : resetIn[c] > 0 \/ winLeft[c] > 0
    /\ resetIn' = [c \in Clients |-> Max(0, resetIn[c] - d)]
    /\ hits' = [c \in Clients |-> IF resetIn[c] - d <= 0 THEN 0 ELSE hits[c]]
    /\ winLeft' = [c \in Clients |-> Max(0, winLeft[c] - d)]
    /\ arrivals' = [c \in Clients |-> IF winLeft[c] - d <= 0 THEN 0 ELSE arrivals[c]]
    /\ passed' = [c \in Clients |-> IF winLeft[c] - d <= 0 THEN 0 ELSE passed[c]]
    /\ prevWindow' = [c \in Clients |->
                        IF winLeft[c] > 0 /\ winLeft[c] - d <= 0 THEN arrivals[c] > max
                        ELSE prevWindow[c]]
    /\ UNCHANGED <<reqs, served>>
    /\ UNCHANGED bootVars

(***************************************************************************)
(* Start-up: the config module is loaded, and the logger is used.          *)
(***************************************************************************)
LoadConfig ==
    /\ config.state = "unloaded"
    /\ config' = loadConfig(env)
    /\ UNCHANGED <<env, emitted, console, errorLog, combinedLog>>
    /\ UNCHANGED httpVars

Log(l) ==
    /\ config.state = "loaded"
    /\ Len(emitted) < MaxLogs
    /\ SetSinks(log(Sinks, config, l))
    /\ UNCHANGED <<env, config>>
    /\ UNCHANGED httpVars

(***************************************************************************)
(* Specifications.                                                         *)
(***************************************************************************)
NoEnv == [NODE_ENV |-> Unset, PORT |-> Unset]

\* the limiter's store at a quiet moment: a key has no entry, or has made max - 1
\* requests in the first half of its window
InitStore ==
    /\ hits \in [Clients -> {0, max - 1}]
    /\ resetIn = [c \in Clients |-> IF hits[c] = 0 THEN 0 ELSE windowMs \div 2]
    /\ arrivals = hits
    /\ passed = hits
    /\ winLeft = resetIn
    /\ prevWindow = [c \in Clients |-> FALSE]

InitSinks ==
    /\ emitted = << >>
    /\ console = << >>
    /\ errorLog = << >>
    /\ combinedLog = << >>

Init ==
    /\ InitStore
    /\ reqs = << >>
    /\ served = 0
    /\ env = NoEnv
    /\ config = loadConfig(env)
    /\ InitSinks

Next ==
    \/ Arrive
    \/ \E i \in 1..Len(reqs) : Resume(i)
    \/ \E i \in 1..Len(reqs) : Close(i)
    \/ \E d \in Delays : Tick(d)

Spec == Init /\ [][Next]_vars

NextConc ==
    \/ ArriveConcurrent
    \/ \E i \in 1..Len(reqs) : Resume(i)
    \/ \E i \in 1..Len(reqs) : Close(i)
    \/ \E d \in Delays : Tick(d)

\* as Init, with a store in which at most the first client has made requests
InitConc ==
    /\ Init
    /\ hits["10.0.0.2"] = 0

SpecConc == InitConc /\ [][NextConc]_vars

InitBoot ==
    /\ hits = [c \in Clients |-> 0]
    /\ resetIn = [c \in Clients |-> 0]
    /\ arrivals = hits
    /\ passed = hits
    /\ winLeft = resetIn
    /\ prevWindow = [c \in Clients |-> FALSE]
    /\ reqs = << >>
    /\ served = 0
    /\ env \in [NODE_ENV : NodeEnvInputs, PORT : PortInputs]
    /\ config = NotLoaded
    /\ InitSinks

NextBoot ==
    \/ LoadConfig
    \/ \E l \in LevelNames : Log(l)

SpecBoot == InitBoot /\ [][NextBoot]_vars


(***************************************************************************)
(* The claims.                                                             *)
(***************************************************************************)
Active == 1..Len(reqs)
Answered == {s \in Active : reqs[s].state = "done"}
Ran(r, name) == \E i \in 1..Len(r.trace) : r.trace[i] = name
\* the request is one of the first max of its client in the client's window
WithinLimit(r) == r.seq \in 1..max
Health200(r) == r.res.status = 200 /\ r.res.body = HealthBody
NotFound404(r) == r.res.status = 404 /\ r.res.body = ErrorBody("Route not found")
Unregistered(p) ==
    /\ p \notin {Root, HealthPath, ApiDocsPath, ApiDocsJsonPath}
    /\ ~IsPrefix(ApiPath, p)

\* C1 as stated: every request to /health, after any earlier requests, is answered
\* 200 {status: "ok"}.
C1_HealthAlwaysOk ==
    \A s \in Answered : reqs[s].path = HealthPath => Health200(reqs[s])

\* C1 as amended: a GET request to /health that is among the first 100 of its client
\* in the window and whose body, if any, is well-formed JSON is answered 200
\* {status: "ok"}, whatever came before.
C1_HealthOkWithinLimit ==
    \A s \in Answered :
        LET r == reqs[s]
        IN  (r.path = HealthPath /\ r.method = "GET" /\ WithinLimit(r) /\ r.body # "malformed")
                => Health200(r)

\* C1's case: the 100th request of a client, a GET /health with a JSON body, after
\* another request was served, answered 200 {status: "ok"}
C1_Witness ==
    \E s \in Answered :
        LET r == reqs[s]
        IN  /\ r.path = HealthPath /\ r.method = "GET" /\ r.body = "json"
            /\ r.seq = max /\ served >= 2 /\ Health200(r)

C3_RateLimitWindow ==
    /\ \A s \in Active :
        LET r == reqs[s]
        IN  r.seq >= 1 =>
                /\ r.hitNo = r.seq
                /\ IF r.seq > max
                   THEN r.state = "done" /\ r.res.status = 429 /\ r.res.by = "limiter"
                   ELSE r.res.by # "limiter" /\ r.res.status # 429
                        /\ (r.state = "done" =>
                                \E i \in 1..Len(r.trace) :
                                    r.trace[i] \notin {"helmet", "cors", "hpp", "limiter"})
    /\ \A c \in Clients : hits[c] = arrivals[c] /\ resetIn[c] = winLeft[c]

\* C3's case: a client whose last window went over the limit, and whose first request
\* after that window has passed the limiter and been answered
C3_Witness ==
    \E s \in Answered :
        LET r == reqs[s]
        IN  /\ prevWindow[r.client] /\ r.seq = 1 /\ hits[r.client] = 1
            /\ r.res.by # "limiter" /\ Ran(r, "morgan")

\* the stages in the order C4 lists them
StageOrder ==
    <<"helmet", "cors", "hpp", "limiter", "json", "urlencoded", "compression", "morgan",
      "swaggerUi", "apiDocsJson", "routes", "health", "index", "notFound", "errorHandler">>
Rank(name) == CHOOSE i \in 1..Len(StageOrder) : StageOrder[i] = name

\* C4: the stages a request enters, in the order it enters them, follow the one fixed
\* order helmet, cors, hpp, limiter, json, urlencoded, compression, morgan, the
\* documentation endpoints, the /api routes, /health, /, the catch-all, the error
\* handler: none is entered before one listed ahead of it, the first four are entered
\* in turn, and the body decoder only after the limiter.
C4_FixedStageOrder ==
    \A s \in Active :
        LET t == reqs[s].trace
        IN  /\ \A i, j \in 1..Len(t) : i < j => Rank(t[i]) < Rank(t[j])
            /\ \A i \in 1..Min(Len(t), 4) : t[i] = StageOrder[i]
            /\ Ran(reqs[s], "json") => Ran(reqs[s], "limiter")

\* C4's case: a request with a body to /api/health that the route table did not answer
\* went through every stage up to the route table and on to the catch-all
C4_Witness ==
    \E s \in Answered :
        /\ reqs[s].body = "json"
        /\ reqs[s].trace = <<"helmet", "cors", "hpp", "limiter", "json", "urlencoded",
                             "compression", "morgan", "routes", "notFound">>

\* C5 as stated: every error of a request, a rate-limit rejection and a body-decoding
\* failure included, reaches the error handler exactly once, and no other stage
\* answers the client for it.
C5_EveryErrorReachesBoundary ==
    \A s \in Answered :
        LET r == reqs[s]
        IN  (r.raised > 0 \/ r.limited) => (r.ehCalls = 1 /\ r.res.by = "errorHandler")

\* the stages ahead of the error handler
EarlierStages == {StageOrder[i] : i \in 1..(Len(StageOrder) - 1)}

\* C5 as amended: every error a stage or handler raises (a body-decoding failure, an
\* error of a route handler) reaches the error handler exactly once, no stage ahead of
\* the error handler answers the client for it, and the error handler runs for nothing
\* else; a rate-limit rejection is not raised: the limiter answers it itself with 429
\* and the error handler does not run.
C5_RaisedErrorsReachBoundary ==
    \A s \in Active :
        LET r == reqs[s]
        IN  /\ r.ehCalls = r.raised
            /\ r.raised <= 1
            /\ (r.state = "done" /\ r.raised = 1) => r.res.by \notin EarlierStages
            /\ r.limited => (r.ehCalls = 0 /\ r.res.by = "limiter" /\ r.res.status = 429)

\* C5's case: a malformed body, after an earlier request, answered by the error
\* handler, which ran once
C5_Witness ==
    \E s \in Answered :
        LET r == reqs[s]
        IN  /\ r.body = "malformed" /\ r.err = "parse" /\ served >= 2
            /\ r.ehCalls = 1 /\ r.res.by = "errorHandler"

\* the step handles the i-th request: it arrives, or it goes on after a wait
Handles(i) ==
    /\ Len(reqs') >= Len(reqs)
    /\ i \in 1..Len(reqs')
    /\ i > Len(reqs) \/ reqs'[i] # reqs[i]
\* the i-th request had entered the limiter before the step
CountedBefore(i) == i <= Len(reqs) /\ Ran(reqs[i], "limiter")
HandlesHealth(i) ==
    /\ Handles(i)
    /\ reqs'[i].method = "GET"
    /\ reqs'[i].path = HealthPath

IsPortNumber(str) ==
    /\ str # << >>
    /\ \A i \in 1..Len(str) : IsDigit(str[i])
    /\ DecimalValue(str, 0) <= 65535
\* an environment the schema is to refuse
Malformed(e) ==
    \/ e.NODE_ENV.set /\ (Len(e.NODE_ENV.val) # 1 \/ e.NODE_ENV.val[1] \notin NodeEnvs)
    \/ e.PORT.set /\ ~IsPortNumber(e.PORT.val)

\* C7: loading the configuration throws, and produces no config, whenever NODE_ENV or
\* PORT is malformed; an absent NODE_ENV is development and an absent PORT is 3000; so a
\* config that was produced has env in {development, production, test} and a numeric
\* port.
C7_ConfigFailsFast ==
    /\ config.state # "unloaded" => (config.state = "threw" <=> Malformed(env))
    /\ config.state = "loaded" =>
        /\ config.env \in NodeEnvs
        /\ ~config.port.nan /\ config.port.val \in 0..65535
        /\ ~env.NODE_ENV.set => config.env = "development"
        /\ ~env.PORT.set => config.port = Num(3000)

\* the minimum level of the execution modes C8 names
MinimumLevel(mode) == IF mode = "production" THEN "info" ELSE "debug"
\* the n-th logger call is one the logger accepts
Accepted(n) ==
    /\ config.env \in {"development", "production"}
    /\ Priority(emitted[n]) <= Priority(MinimumLevel(config.env))
In(sink, n) == \E i \in 1..Len(sink) : sink[i].n = n

\* C8 as stated: every record the logger accepts is written to the console, to
\* error.log and to combined.log.
C8_EveryRecordToAllThree ==
    \A n \in 1..Len(emitted) :
        Accepted(n) => In(console, n) /\ In(errorLog, n) /\ In(combinedLog, n)

\* C8 as amended: every record the logger accepts is written to the console and to
\* combined.log, and to error.log exactly when its level is error.
C8_ErrorLogTakesErrorsOnly ==
    \A n \in 1..Len(emitted) :
        Accepted(n) =>
            /\ In(console, n) /\ In(combinedLog, n)
            /\ In(errorLog, n) <=> emitted[n] = "error"

\* C8's case: in development, a debug record on the console and in combined.log and not
\* in error.log, and an error record in all three
C8_Witness ==
    /\ config.env = "development"
    /\ \E n, m \in 1..Len(emitted) :
        /\ emitted[n] = "debug" /\ In(console, n) /\ In(combinedLog, n) /\ ~In(errorLog, n)
        /\ emitted[m] = "error" /\ In(console, m) /\ In(combinedLog, m) /\ In(errorLog, m)

\* C9: however the requests of one client interleave, the store's counter of a key is
\* the number of that key's requests that ran the limiter in the window (none lost,
\* none counted twice), the first min(n, 100) of them passed and the others were
\* rejected, and a key's counter moves only with that key's requests.
C9_IncrementsSerialized ==
    /\ \A c \in Clients :
        /\ hits[c] = arrivals[c]
        /\ passed[c] = Min(arrivals[c], max)
    /\ \A s \in Active :
        reqs[s].seq >= 1 =>
            /\ reqs[s].hitNo = reqs[s].seq
            /\ reqs[s].limited <=> reqs[s].seq > max

\* C9's case: two requests of one client in flight together, the later arrival counted
\* first as the client's 100th and still reading its body, the earlier arrival counted
\* after it as the 101st and rejected
C9_Witness ==
    \E s, t \in Active :
        /\ s < t /\ reqs[s].client = reqs[t].client
        /\ reqs[s].state = "done" /\ reqs[t].state = "waiting"
        /\ reqs[t].seq = max /\ reqs[s].seq = max + 1 /\ reqs[s].limited
        /\ hits[reqs[s].client] = max + 1

\* C10: a request the limiter rejects ends there: it entered helmet, cors, hpp and the
\* limiter and nothing after, its body was not decoded, no access-log line was written
\* for it and the error handler did not run; and every request with an access-log line
\* passed the limiter.
C10_RejectedStopsAtLimiter ==
    \A s \in Active :
        LET r == reqs[s]
        IN  /\ r.limited =>
                /\ r.state = "done"
                /\ \A i \in 1..Len(r.trace) : Rank(r.trace[i]) <= Rank("limiter")
                /\ r.trace[Len(r.trace)] = "limiter"
                /\ ~r.parsed /\ ~r.logSeen /\ ~r.logged /\ r.logs = << >>
                /\ r.ehCalls = 0 /\ r.raised = 0
            /\ (r.logged \/ r.logs # << >>) =>
                Ran(r, "limiter") /\ ~r.limited /\ WithinLimit(r)

\* C10's case: the 101st request of a client, with a malformed body, after an earlier
\* request: answered 429 by the limiter, not decoded, not logged
C10_Witness ==
    \E s \in Answered :
        LET r == reqs[s]
        IN  /\ r.seq = max + 1 /\ r.body = "malformed" /\ r.limited
            /\ r.res.status = 429 /\ r.err = "none" /\ ~r.logged

====
